---- MODULE Spec2Model ----
(***************************************************************************)
(* nbtutils: conversion between textual NBT literals and the in-memory tag *)
(* tree (str2nbt), back to text (nbt2str) and to plain values (nbt2py).    *)
(*                                                                         *)
(* A text is a sequence of one-character strings.  Positions are 1-based:  *)
(* "loc" is the index of the next character to read, Len(s)+1 at the end.  *)
(***************************************************************************)
EXTENDS Integers, Sequences, FiniteSets, TLC

VARIABLES input, text, pc, result, out, back, native

vars == <<input, text, pc, result, out, back, native>>

(***************************************************************************)
(* Characters                                                              *)
(***************************************************************************)
White == {" ", "\n", "\t", "\r"}

DigitSeq == <<"0", "1", "2", "3", "4", "5", "6", "7", "8", "9">>

Digit == {DigitSeq[i] : i \in 1..10}

DigitVal(c) == (CHOOSE i \in 1..10 : DigitSeq[i] = c) - 1

LowerSeq ==
  <<"a", "b", "c", "d", "e", "f", "g", "h", "i", "j", "k", "l", "m",
    "n", "o", "p", "q", "r", "s", "t", "u", "v", "w", "x", "y", "z">>

UpperSeq ==
  <<"A", "B", "C", "D", "E", "F", "G", "H", "I", "J", "K", "L", "M",
    "N", "O", "P", "Q", "R", "S", "T", "U", "V", "W", "X", "Y", "Z">>

\* pp.alphanums
alphanums == {LowerSeq[i] : i \in 1..26} \cup {UpperSeq[i] : i \in 1..26} \cup Digit

\* re.IGNORECASE: characters are compared after case folding
LowerOf(c) ==
  IF \E i \in 1..26 : UpperSeq[i] = c
  THEN LowerSeq[CHOOSE i \in 1..26 : UpperSeq[i] = c]
  ELSE c

\* the character at position i, "" past either end
At(s, i) == IF i >= 1 /\ i <= Len(s) THEN s[i] ELSE ""

\* s[i..j-1]
Slice(s, i, j) == SubSeq(s, i, j - 1)

(***************************************************************************)
(* Python values: int(), float(), str()                                    *)
(***************************************************************************)
RECURSIVE DigitsToNat(_, _)
DigitsToNat(ds, acc) ==
  IF ds = <<>> THEN acc ELSE DigitsToNat(Tail(ds), 10 * acc + DigitVal(Head(ds)))

\* int(t) for a text matching [-+]?\d+
PyInt(t) ==
  IF Head(t) = "-" THEN 0 - DigitsToNat(Tail(t), 0)
  ELSE IF Head(t) = "+" THEN DigitsToNat(Tail(t), 0)
  ELSE DigitsToNat(t, 0)

RECURSIVE NatToDigits(_)
NatToDigits(n) ==
  IF n < 10 THEN <<DigitSeq[n + 1]>>
  ELSE Append(NatToDigits(n \div 10), DigitSeq[(n % 10) + 1])

\* str(n) for an int
IntStr(n) == IF n < 0 THEN <<"-">> \o NatToDigits(0 - n) ELSE NatToDigits(n)

RECURSIVE StripLeadingZeros(_)
StripLeadingZeros(ds) ==
  IF ds # <<>> /\ Head(ds) = "0" THEN StripLeadingZeros(Tail(ds)) ELSE ds

RECURSIVE StripTrailingZeros(_)
StripTrailingZeros(ds) ==
  IF ds # <<>> /\ ds[Len(ds)] = "0"
  THEN StripTrailingZeros(SubSeq(ds, 1, Len(ds) - 1))
  ELSE ds

RECURSIVE Zeros(_)
Zeros(n) == IF n <= 0 THEN <<>> ELSE <<"0">> \o Zeros(n - 1)

\* lexicographic a >= b on digit sequences, the shorter one padded with 0
RECURSIVE DigitsGeq(_, _)
DigitsGeq(a, b) ==
  IF a = <<>> /\ b = <<>> THEN TRUE
  ELSE LET x == IF a = <<>> THEN 0 ELSE DigitVal(Head(a))
           y == IF b = <<>> THEN 0 ELSE DigitVal(Head(b))
       IN  IF x # y THEN x > y
           ELSE DigitsGeq(IF a = <<>> THEN a ELSE Tail(a),
                          IF b = <<>> THEN b ELSE Tail(b))

\* A binary64 value as the decimal it prints as: 0.d1d2...dn * 10^decpt,
\* digits without leading or trailing zeros (<<>> for zero), or an infinity.
\* Exact for literals of at most 15 significant digits outside the
\* subnormal range, which is all the inputs below contain.
FloatVal(neg, inf, digits, decpt) ==
  [neg |-> neg, inf |-> inf, digits |-> digits, decpt |-> decpt]

NoFloat == FloatVal(FALSE, FALSE, <<>>, 0)

\* decimal digits of the smallest magnitude that rounds to infinity,
\* 1.797693134862315807e308 (half way from DBL_MAX to 2^1024)
OverflowDigits ==
  <<"1", "7", "9", "7", "6", "9", "3", "1", "3", "4", "8", "6", "2", "3", "1", "5", "8", "0", "7">>

OverflowDecpt == 309

UnderflowDecpt == -323

\* index of the first character of t in cs at or after i, Len(t)+1 if none
RECURSIVE FindChar(_, _, _)
FindChar(t, i, cs) ==
  IF i > Len(t) \/ t[i] \in cs THEN i ELSE FindChar(t, i + 1, cs)

\* the text of a float literal without its sign
FloatBody(t) == IF Head(t) \in {"+", "-"} THEN Tail(t) ELSE t

\* the part of the body before the exponent
Mantissa(body) == Slice(body, 1, FindChar(body, 1, {"e", "E"}))

\* the exponent of the body, 0 if it has none
Exponent(body, ePos) ==
  IF ePos > Len(body) THEN 0 ELSE PyInt(Slice(body, ePos + 1, Len(body) + 1))

\* the digits of the mantissa before the point
IntPart(mant) == Slice(mant, 1, FindChar(mant, 1, {"."}))

\* the digits of the mantissa after the point
FracPart(mant, dot) ==
  IF dot > Len(mant) THEN <<>> ELSE Slice(mant, dot + 1, Len(mant) + 1)

\* the binary64 value of 0.digits * 10^decpt: infinite from the overflow
\* threshold on, zero below the smallest subnormal
Binary64(neg, digits, decpt) ==
  IF digits = <<>> THEN FloatVal(neg, FALSE, <<>>, 0)
  ELSE IF decpt > OverflowDecpt
          \/ (decpt = OverflowDecpt /\ DigitsGeq(digits, OverflowDigits))
       THEN FloatVal(neg, TRUE, <<>>, 0)
  ELSE IF decpt < UnderflowDecpt THEN FloatVal(neg, FALSE, <<>>, 0)
  ELSE FloatVal(neg, FALSE, digits, decpt)

\* the value of the significant digits sig (no leading zeros), of which
\* nfrac stand after the point, times 10^exp
Significand(neg, sig, nfrac, exp) ==
  Binary64(neg, StripTrailingZeros(sig), Len(sig) + exp - nfrac)

\* the value of ipart.fpart * 10^exp
Decimal(neg, ipart, fpart, exp) ==
  Significand(neg, StripLeadingZeros(ipart \o fpart), Len(fpart), exp)

\* the value of the unsigned literal body, whose mantissa is mant
FloatOf(neg, body, mant) ==
  Decimal(neg, IntPart(mant), FracPart(mant, FindChar(mant, 1, {"."})),
          Exponent(body, FindChar(body, 1, {"e", "E"})))

\* float(t) for a text matching [+-]?\d+(?:\.\d*)?(?:e[+-]?\d+)?
PyFloat(t) == FloatOf(Head(t) = "-", FloatBody(t), Mantissa(FloatBody(t)))

\* str(x) for a float: repr, shortest digits, exponent form when
\* decpt <= -4 or decpt > 16, exponent of at least two digits
FloatStr(x) ==
  LET sign == IF x.neg THEN <<"-">> ELSE <<>>
      n    == Len(x.digits)
      e    == x.decpt - 1
      eabs == IF e < 0 THEN 0 - e ELSE e
      eds  == IF eabs < 10 THEN <<"0">> \o NatToDigits(eabs) ELSE NatToDigits(eabs)
  IN  IF x.inf THEN sign \o <<"i", "n", "f">>
      ELSE IF n = 0 THEN sign \o <<"0", ".", "0">>
      ELSE IF x.decpt <= -4 \/ x.decpt > 16
           THEN sign \o <<x.digits[1]>>
                \o (IF n > 1 THEN <<".">> \o SubSeq(x.digits, 2, n) ELSE <<>>)
                \o <<"e">> \o (IF e < 0 THEN <<"-">> ELSE <<"+">>) \o eds
      ELSE IF x.decpt <= 0
           THEN sign \o <<"0", ".">> \o Zeros(0 - x.decpt) \o x.digits
      ELSE IF x.decpt >= n
           THEN sign \o x.digits \o Zeros(x.decpt - n) \o <<".", "0">>
      ELSE sign \o SubSeq(x.digits, 1, x.decpt) \o <<".">> \o SubSeq(x.digits, x.decpt + 1, n)

(***************************************************************************)
(* Tags of the nbt library and parse results                               *)
(***************************************************************************)
\* the name of a tag that was never given one (None)
NoName == <<"None">>

\* One record shape for every tag: num for Byte/Short/Int/Long, flt for
\* Float/Double, str for String, arr for the arrays, tags for List and
\* Compound, tagID for List.
Tag(type, num, flt, str, arr, tags, tagID) ==
  [type |-> type, num |-> num, flt |-> flt, str |-> str, arr |-> arr,
   tags |-> tags, tagID |-> tagID, name |-> NoName]

NoTag == Tag("", 0, NoFloat, <<>>, <<>>, <<>>, "")

IntTag(type, n) == Tag(type, n, NoFloat, <<>>, <<>>, <<>>, "")

FloatTag(type, x) == Tag(type, 0, x, <<>>, <<>>, <<>>, "")

TAG_String(v) == Tag("TAG_String", 0, NoFloat, v, <<>>, <<>>, "")

\* bool(tag): the container and String tags define __len__, the numeric
\* tags do not
Truthy(tag) ==
  CASE tag.type = "TAG_String" -> Len(tag.str) > 0
    [] tag.type \in {"TAG_Byte_Array", "TAG_Int_Array", "TAG_Long_Array"} -> Len(tag.arr) > 0
    [] tag.type \in {"TAG_List", "TAG_Compound"} -> Len(tag.tags) > 0
    [] OTHER -> TRUE

\* what an element's _parse returns: the tokens and the next location, or
\* the exception it raised
Ok(loc, toks) == [st |-> "ok", loc |-> loc, toks |-> toks]

Raise(exc) == [st |-> exc, loc |-> 0, toks |-> <<>>]

ParseException == Raise("ParseException")

(***************************************************************************)
(* pyparsing elements                                                      *)
(***************************************************************************)
\* ParserElement.preParse: skip the default whitespace
RECURSIVE preParse(_, _)
preParse(s, loc) ==
  IF loc <= Len(s) /\ s[loc] \in White THEN preParse(s, loc + 1) ELSE loc

\* skipLiteral(lit).  The token is suppressed.
skipLiteral(s, loc, lit) ==
  LET start == preParse(s, loc)
  IN  IF At(s, start) = lit THEN Ok(start + 1, <<>>) ELSE ParseException

RECURSIVE DigitsEnd(_, _)
DigitsEnd(s, i) == IF At(s, i) \in Digit THEN DigitsEnd(s, i + 1) ELSE i

SignEnd(s, i) == IF At(s, i) \in {"+", "-"} THEN i + 1 ELSE i

\* end of the match of [-+]?\d+ at i, 0 if none
IntRegexEnd(s, i) ==
  LET k == DigitsEnd(s, SignEnd(s, i))
  IN  IF k > SignEnd(s, i) THEN k ELSE 0

\* end of (?:\.\d*)? at k
FracEnd(s, k) == IF At(s, k) = "." THEN DigitsEnd(s, k + 1) ELSE k

\* end of (?:e[+-]?\d+)? at k
ExpEnd(s, k) ==
  IF LowerOf(At(s, k)) = "e" /\ IntRegexEnd(s, k + 1) > 0 THEN IntRegexEnd(s, k + 1) ELSE k

\* end of the match of [+-]?\d+(?:\.\d*)?(?:e[+-]?\d+)? at i, 0 if none
FloatRegexEnd(s, i) ==
  IF IntRegexEnd(s, i) = 0 THEN 0 ELSE ExpEnd(s, FracEnd(s, IntRegexEnd(s, i)))

\* pp.And: the element el after r has matched
And(r, el(_)) == IF r.st = "ok" THEN el(r) ELSE r

\* the match of the Regex from start, whose number part ends before core
\* (0 if there is none), and its sub(r"\1"): the token is the text of the
\* group.  suffix is <<>>, <<c>> or <<c, "?">>.
RegexMatch(s, start, core, suffix, hasSf) ==
  IF core = 0 THEN ParseException
  ELSE IF Len(suffix) = 1 /\ ~hasSf THEN ParseException
  ELSE Ok(IF hasSf THEN core + 1 ELSE core, <<Slice(s, start, core)>>)

\* the suffix is matched without regard to case
RegexFrom(s, start, core, suffix) ==
  RegexMatch(s, start, core, suffix,
             suffix # <<>> /\ LowerOf(At(s, core)) = LowerOf(suffix[1]))

\* the Regex of matchNumber(suffix, is_float)
matchNumberRegex(s, loc, suffix, is_float) ==
  RegexFrom(s, preParse(s, loc),
            IF is_float THEN FloatRegexEnd(s, preParse(s, loc))
            ELSE IntRegexEnd(s, preParse(s, loc)),
            suffix)

\* the parse action matchNumber adds: float(t[0]) or int(t[0])
NumberValue(is_float, t) ==
  IF is_float THEN [num |-> 0, flt |-> PyFloat(t)] ELSE [num |-> PyInt(t), flt |-> NoFloat]

\* matchNumber(suffix, is_float)
matchNumber(s, loc, suffix, is_float) ==
  And(matchNumberRegex(s, loc, suffix, is_float),
      LAMBDA r: Ok(r.loc, <<NumberValue(is_float, r.toks[1])>>))

RECURSIVE WordEnd(_, _)
WordEnd(s, i) == IF At(s, i) \in alphanums THEN WordEnd(s, i + 1) ELSE i

\* the word from start to before end, of at least one character
WordFrom(s, start, end) ==
  IF end > start THEN Ok(end, <<Slice(s, start, end)>>) ELSE ParseException

\* pp.Word(pp.alphanums)
Word(s, loc) == WordFrom(s, preParse(s, loc), WordEnd(s, preParse(s, loc)))

\* QuotedString: the closing quote of a string opened before i, 0 when a
\* line break or the end of the text comes first
RECURSIVE QuoteEnd(_, _)
QuoteEnd(s, i) ==
  IF i > Len(s) \/ s[i] \in {"\n", "\r"} THEN 0
  ELSE IF s[i] = "\"" THEN i
  ELSE QuoteEnd(s, i + 1)

\* QuotedString's convertWhitespaceEscapes (on by default): backslash
\* followed by t, n, f or r becomes that whitespace character
RECURSIVE ConvertWhitespaceEscapes(_)
ConvertWhitespaceEscapes(v) ==
  IF v = <<>> THEN <<>>
  ELSE IF Len(v) >= 2 /\ v[1] = "\\" /\ v[2] \in {"t", "n", "f", "r"}
       THEN <<CASE v[2] = "t" -> "\t" [] v[2] = "n" -> "\n"
                [] v[2] = "f" -> "\f" [] OTHER -> "\r">>
            \o ConvertWhitespaceEscapes(SubSeq(v, 3, Len(v)))
  ELSE <<v[1]>> \o ConvertWhitespaceEscapes(Tail(v))

\* the quoted string opened at start and closed at close
QuotedFrom(s, start, close) ==
  IF At(s, start) = "\"" /\ close > 0
  THEN Ok(close + 1, <<ConvertWhitespaceEscapes(Slice(s, start + 1, close))>>)
  ELSE ParseException

\* pp.QuotedString('"')
QuotedString(s, loc) == QuotedFrom(s, preParse(s, loc), QuoteEnd(s, preParse(s, loc) + 1))

\* pp.Optional(el) at loc: no token when el does not match
Optional(r, loc) == IF r.st = "ParseException" THEN Ok(loc, <<>>) ELSE r

\* pp.ZeroOrMore(el) at loc after the tokens acc: r is el's match at loc,
\* more(loc, acc) the repetition from there on
ZeroOrMore(r, loc, acc, more(_, _)) ==
  IF r.st = "ok" THEN more(r.loc, Append(acc, r.toks[1]))
  ELSE IF r.st = "ParseException" THEN Ok(loc, acc)
  ELSE r

\* an alternative of pp.MatchFirst: alt is tried when r did not match; an
\* exception other than ParseException leaves the parse at once
OrElse(r, alt) == IF r.st # "ParseException" THEN r ELSE alt

\* pp.MatchFirst over the alternatives' matches: the index of the first
\* that matched, 0 if none did
MatchFirstOf(rs) ==
  IF \E i \in 1..Len(rs) : rs[i].st = "ok"
  THEN CHOOSE i \in 1..Len(rs) : rs[i].st = "ok" /\ \A j \in 1..(i - 1) : rs[j].st # "ok"
  ELSE 0

\* pp.Or over the alternatives' matches (each tried without its parse
\* actions): the index of the longest match, the earliest alternative among
\* equally long ones (a stable sort by length); 0 if none matched
OrOf(rs) ==
  IF \E i \in 1..Len(rs) : rs[i].st = "ok"
  THEN CHOOSE i \in 1..Len(rs) :
         /\ rs[i].st = "ok"
         /\ \A j \in 1..Len(rs) :
              rs[j].st = "ok" =>
                \/ rs[j].loc < rs[i].loc
                \/ (rs[j].loc = rs[i].loc /\ j >= i)
  ELSE 0

(***************************************************************************)
(* The grammar                                                             *)
(***************************************************************************)
\* STR_Byte, STR_Short, STR_Int, STR_Long, STR_Float, STR_Double: the
\* suffix and is_float given to matchNumber, and the tag the added parse
\* action makes
NumberForms ==
  <<[type |-> "TAG_Byte", suffix |-> <<"b">>, is_float |-> FALSE],
    [type |-> "TAG_Short", suffix |-> <<"s">>, is_float |-> FALSE],
    [type |-> "TAG_Int", suffix |-> <<>>, is_float |-> FALSE],
    [type |-> "TAG_Long", suffix |-> <<"l">>, is_float |-> FALSE],
    [type |-> "TAG_Float", suffix |-> <<"f">>, is_float |-> TRUE],
    [type |-> "TAG_Double", suffix |-> <<"d", "?">>, is_float |-> TRUE]>>

\* the parse actions of the chosen number form: int() or float(), then the tag
NumberTag(form, t) ==
  IF form.is_float THEN FloatTag(form.type, PyFloat(t)) ELSE IntTag(form.type, PyInt(t))

\* the alternative i of STR_Number, parsed with its parse actions
NumberChosen(rs, i) ==
  IF i = 0 THEN ParseException
  ELSE Ok(rs[i].loc, <<NumberTag(NumberForms[i], rs[i].toks[1])>>)

\* pp.Or over the matches rs of the number forms
NumberOr(rs) == NumberChosen(rs, OrOf(rs))

\* STR_Number = pp.Or([STR_Byte, ..., STR_Double])
STR_Number(s, loc) ==
  NumberOr([i \in 1..Len(NumberForms) |->
              matchNumberRegex(s, loc, NumberForms[i].suffix, NumberForms[i].is_float)])

\* the alternative i of STR_String, made a TAG_String
StringChosen(rs, i) ==
  IF i = 0 THEN ParseException ELSE Ok(rs[i].loc, <<TAG_String(rs[i].toks[1])>>)

\* pp.Or over the matches rs of the two string forms
StringOr(rs) == StringChosen(rs, OrOf(rs))

\* STR_String = pp.Word(pp.alphanums) ^ pp.QuotedString('"'), made a TAG_String
STR_String(s, loc) == StringOr(<<Word(s, loc), QuotedString(s, loc)>>)

\* "," + number of pp.delimitedList in matchNumList
NumListItem(s, loc, typecode) ==
  And(skipLiteral(s, loc, ","),
      LAMBDA c: matchNumber(s, c.loc, <<typecode, "?">>, FALSE))

\* ZeroOrMore("," + number) of pp.delimitedList in matchNumList
RECURSIVE NumListRest(_, _, _, _)
NumListRest(s, loc, typecode, acc) ==
  ZeroOrMore(NumListItem(s, loc, typecode), loc, acc,
             LAMBDA l, a: NumListRest(s, l, typecode, a))

\* matchNumList(typecode): "[" typecode ";" number ("," number)* "]", the
\* numbers as one tuple token
matchNumList(s, loc, typecode) ==
  And(skipLiteral(s, loc, "["), LAMBDA a:
  And(skipLiteral(s, a.loc, typecode), LAMBDA b:
  And(skipLiteral(s, b.loc, ";"), LAMBDA c:
  And(matchNumber(s, c.loc, <<typecode, "?">>, FALSE), LAMBDA first:
  And(NumListRest(s, first.loc, typecode, first.toks), LAMBDA rest:
  And(skipLiteral(s, rest.loc, "]"), LAMBDA close:
  Ok(close.loc, <<[i \in 1..Len(rest.toks) |-> rest.toks[i].num]>>)))))))

\* value_constructor(vals): bytearray accepts only 0..255 and raises
\* ValueError otherwise, list accepts every int
ValueConstructor(value_constructor, vals) ==
  IF value_constructor = "bytearray" /\ \E i \in 1..Len(vals) : vals[i] \notin 0..255
  THEN Raise("ValueError")
  ELSE Ok(0, vals)

\* make_tag_array, as the parse action of the array forms
make_tag_array(r, tag_type, value_constructor) ==
  LET v == ValueConstructor(value_constructor, r.toks[1])
  IN  IF r.st # "ok" THEN r
      ELSE IF v.st # "ok" THEN v
      ELSE Ok(r.loc, <<Tag(tag_type, 0, NoFloat, <<>>, v.toks, <<>>, "")>>)

STR_Byte_Array(s, loc) == make_tag_array(matchNumList(s, loc, "B"), "TAG_Byte_Array", "bytearray")

STR_Int_Array(s, loc) == make_tag_array(matchNumList(s, loc, "I"), "TAG_Int_Array", "list")

STR_Long_Array(s, loc) == make_tag_array(matchNumList(s, loc, "L"), "TAG_Long_Array", "list")

\* nbt.TAG_List(type=first): "if type:" tests the truth value of the first
\* child, and the declared type stays None when it is false
TAG_List_tagID(first) == IF Truthy(first) THEN first.type ELSE "None"

\* make_tag_list(vals)
make_tag_list(vals) ==
  Tag("TAG_List", 0, NoFloat, <<>>, <<>>, vals, TAG_List_tagID(vals[1]))

\* the parse action of STR_List, lambda t: make_tag_list(t[0]).  t[0] of no
\* tokens raises IndexError, which pyparsing turns into a ParseException.
STR_List_action(r) ==
  IF r.st # "ok" THEN r
  ELSE IF r.toks = <<>> THEN ParseException
  ELSE Ok(r.loc, <<make_tag_list(r.toks[1])>>)

\* a dict built from (key, value) pairs: one item per distinct key, at the
\* place of the key's first pair, with the value of its last pair
PyDictBy(pairs, Key(_)) ==
  LET firsts == {i \in 1..Len(pairs) : \A j \in 1..(i - 1) : Key(pairs[j]) # Key(pairs[i])}
      last(i) == CHOOSE j \in 1..Len(pairs) :
                   /\ Key(pairs[j]) = Key(pairs[i])
                   /\ \A k \in (j + 1)..Len(pairs) : Key(pairs[k]) # Key(pairs[i])
      nth(n) == CHOOSE i \in firsts : Cardinality({j \in firsts : j < i}) = n - 1
  IN  [n \in 1..Cardinality(firsts) |->
         [key |-> pairs[nth(n)].key, id |-> pairs[nth(n)].id, val |-> pairs[last(nth(n))].val]]

KeyObject(p) == p.id

KeyText(p) == p.key

\* dict(t.asList()) with the keys compared by their text
DictByKeyText(pairs) == PyDictBy(pairs, KeyText)

\* the parse action of matchDict, lambda t: dict(t.asList()).  The keys are
\* TAG_String objects, which hash by identity: one object per parsed key,
\* identified here by the place it was parsed at.
matchDict_action(pairs) == PyDictBy(pairs, KeyObject)

\* make_tag_compound(value): each value tag gets its key's text as name
make_tag_compound(value) ==
  Tag("TAG_Compound", 0, NoFloat, <<>>, <<>>,
      [i \in 1..Len(value) |-> [value[i].val EXCEPT !.name = value[i].key]], "")

RECURSIVE STR_TAG(_, _)
RECURSIVE TagListRest(_, _, _)
RECURSIVE KvSeqRest(_, _, _)

\* ZeroOrMore("," + STR_TAG) of pp.delimitedList(STR_TAG)
TagListRest(s, loc, acc) ==
  ZeroOrMore(And(skipLiteral(s, loc, ","), LAMBDA c: STR_TAG(s, c.loc)), loc, acc,
             LAMBDA l, a: TagListRest(s, l, a))

\* pp.delimitedList(STR_TAG).setParseAction(lambda t: tuple(t))
TagTuple(s, loc) ==
  And(STR_TAG(s, loc), LAMBDA first:
  And(TagListRest(s, first.loc, first.toks), LAMBDA rest:
  Ok(rest.loc, <<rest.toks>>)))

\* delimited(parser, start, end): start + Optional(parser) + end
STR_List(s, loc) ==
  STR_List_action(
    And(skipLiteral(s, loc, "["), LAMBDA a:
    And(Optional(TagTuple(s, a.loc), a.loc), LAMBDA opt:
    And(skipLiteral(s, opt.loc, "]"), LAMBDA close:
    Ok(close.loc, opt.toks)))))

\* kv = key + ":" + val, as the pair (t[0], t[1])
Kv(s, loc) ==
  And(STR_String(s, loc), LAMBDA k:
  And(skipLiteral(s, k.loc, ":"), LAMBDA d:
  And(STR_TAG(s, d.loc), LAMBDA v:
  Ok(v.loc, <<[key |-> k.toks[1].str, id |-> preParse(s, loc), val |-> v.toks[1]]>>))))

\* ZeroOrMore("," + kv)
KvSeqRest(s, loc, acc) ==
  ZeroOrMore(And(skipLiteral(s, loc, ","), LAMBDA c: Kv(s, c.loc)), loc, acc,
             LAMBDA l, a: KvSeqRest(s, l, a))

\* kv + ZeroOrMore("," + kv)
KvSeq(s, loc) == And(Kv(s, loc), LAMBDA first: KvSeqRest(s, first.loc, first.toks))

\* matchDict(STR_String, STR_TAG) and make_tag_compound
STR_Compound(s, loc) ==
  And(skipLiteral(s, loc, "{"), LAMBDA a:
  And(Optional(KvSeq(s, a.loc), a.loc), LAMBDA opt:
  And(skipLiteral(s, opt.loc, "}"), LAMBDA close:
  Ok(close.loc, <<make_tag_compound(matchDict_action(opt.toks))>>))))

\* STR_TAG: the first alternative that matches
STR_TAG(s, loc) ==
  OrElse(STR_Number(s, loc),
  OrElse(STR_String(s, loc),
  OrElse(STR_Byte_Array(s, loc),
  OrElse(STR_Int_Array(s, loc),
  OrElse(STR_Long_Array(s, loc),
  OrElse(STR_List(s, loc),
         STR_Compound(s, loc)))))))

RECURSIVE Spaces(_)
Spaces(n) == IF n <= 0 THEN <<>> ELSE <<" ">> \o Spaces(n - 1)

\* str.expandtabs(), which parseString applies to its input
RECURSIVE ExpandTabs(_, _)
ExpandTabs(s, col) ==
  IF s = <<>> THEN <<>>
  ELSE IF Head(s) = "\t" THEN Spaces(8 - (col % 8)) \o ExpandTabs(Tail(s), 0)
  ELSE IF Head(s) \in {"\n", "\r"} THEN <<Head(s)>> \o ExpandTabs(Tail(s), 0)
  ELSE <<Head(s)>> \o ExpandTabs(Tail(s), col + 1)

\* what str2nbt gives its caller: the tag, or the exception
Returned(tag) == [st |-> "ok", tag |-> tag]

Failed(exc) == [st |-> exc, tag |-> NoTag]

\* StringEnd after the match r, which parseAll adds
StringEnd(s, r) == IF preParse(s, r.loc) <= Len(s) THEN ParseException ELSE r

\* the first token of the match r, or its exception
FirstToken(r) == IF r.st = "ok" THEN Returned(r.toks[1]) ELSE Failed(r.st)

\* STR_TAG.parseString(s, parseAll)[0]
parseString(s, parseAll) ==
  FirstToken(And(STR_TAG(s, 1), LAMBDA r: IF parseAll THEN StringEnd(s, r) ELSE r))

\* parseString without parseAll: trailing text is left unread
str2nbt_prefix(s) == parseString(ExpandTabs(s, 0), FALSE)

str2nbt(s) == parseString(ExpandTabs(s, 0), TRUE)

(***************************************************************************)
(* nbt2str                                                                 *)
(***************************************************************************)
\* sep.join(parts)
RECURSIVE Join(_, _)
Join(parts, sep) ==
  IF parts = <<>> THEN <<>>
  ELSE IF Len(parts) = 1 THEN parts[1]
  ELSE parts[1] \o sep \o Join(Tail(parts), sep)

\* "[X; " + ",".join([str(v) for v in nbtdata.value]) + "]"
ArrayStr(letter, arr) ==
  <<"[", letter, ";", " ">> \o Join([i \in 1..Len(arr) |-> IntStr(arr[i])], <<",">>) \o <<"]">>

RECURSIVE nbt2str(_)
nbt2str(nbtdata) ==
  CASE nbtdata.type = "TAG_Byte" -> IntStr(nbtdata.num) \o <<"b">>
    [] nbtdata.type = "TAG_Short" -> IntStr(nbtdata.num) \o <<"s">>
    [] nbtdata.type = "TAG_Int" -> IntStr(nbtdata.num)
    [] nbtdata.type = "TAG_Long" -> IntStr(nbtdata.num) \o <<"l">>
    [] nbtdata.type = "TAG_Float" -> FloatStr(nbtdata.flt) \o <<"f">>
    [] nbtdata.type = "TAG_Double" -> FloatStr(nbtdata.flt) \o <<"d">>
    [] nbtdata.type = "TAG_String" -> <<"\"">> \o nbtdata.str \o <<"\"">>
    [] nbtdata.type = "TAG_Byte_Array" -> ArrayStr("B", nbtdata.arr)
    [] nbtdata.type = "TAG_Int_Array" -> ArrayStr("I", nbtdata.arr)
    [] nbtdata.type = "TAG_Long_Array" -> ArrayStr("L", nbtdata.arr)
    [] nbtdata.type = "TAG_List" ->
         <<"[">> \o Join([i \in 1..Len(nbtdata.tags) |-> nbt2str(nbtdata.tags[i])], <<",">>)
         \o <<"]">>
    [] nbtdata.type = "TAG_Compound" ->
         <<"{">>
         \o Join([i \in 1..Len(nbtdata.tags) |->
                    <<"\"">> \o nbtdata.tags[i].name \o <<"\"", ":">>
                    \o nbt2str(nbtdata.tags[i])], <<",">>)
         \o <<"}">>

(***************************************************************************)
(* nbt2py                                                                  *)
(***************************************************************************)
\* A Python value: an int, a float, a str, a bytearray or list (seq), or a
\* dict (items, in insertion order).
PyVal(kind, num, flt, str, seq, items) ==
  [kind |-> kind, num |-> num, flt |-> flt, str |-> str, seq |-> seq, items |-> items]

PyNone == PyVal("None", 0, NoFloat, <<>>, <<>>, <<>>)

PyIntVal(n) == PyVal("int", n, NoFloat, <<>>, <<>>, <<>>)

PySeq(kind, arr) ==
  PyVal(kind, 0, NoFloat, <<>>, [i \in 1..Len(arr) |-> PyIntVal(arr[i])], <<>>)

\* [nbt2py(tag) for tag in nbtdata.tags], given the flattened children
nbt2py_List(children) == PyVal("list", 0, NoFloat, <<>>, children, <<>>)

\* a dict comprehension that keeps the first value of a repeated name
DictFirstWins(pairs) ==
  LET d == PyDictBy(pairs, KeyText)
  IN  PyVal("dict", 0, NoFloat, <<>>, <<>>,
            [n \in 1..Len(d) |->
               [d[n] EXCEPT !.val =
                  pairs[CHOOSE i \in 1..Len(pairs) :
                          /\ pairs[i].key = d[n].key
                          /\ \A j \in 1..(i - 1) : pairs[j].key # d[n].key].val]])

\* {tag.name: nbt2py(tag) for tag in nbtdata.tags}, given the (name, value)
\* pairs in order: a dict keyed by the name's text
nbt2py_Compound(pairs) == PyVal("dict", 0, NoFloat, <<>>, <<>>, PyDictBy(pairs, KeyText))

RECURSIVE nbt2py(_)
nbt2py(nbtdata) ==
  CASE nbtdata.type \in {"TAG_Byte", "TAG_Short", "TAG_Int", "TAG_Long"} ->
         PyIntVal(nbtdata.num)
    [] nbtdata.type \in {"TAG_Float", "TAG_Double"} ->
         PyVal("float", 0, nbtdata.flt, <<>>, <<>>, <<>>)
    [] nbtdata.type = "TAG_String" -> PyVal("str", 0, NoFloat, nbtdata.str, <<>>, <<>>)
    [] nbtdata.type = "TAG_Byte_Array" -> PySeq("bytearray", nbtdata.arr)
    [] nbtdata.type \in {"TAG_Int_Array", "TAG_Long_Array"} -> PySeq("list", nbtdata.arr)
    [] nbtdata.type = "TAG_List" ->
         nbt2py_List([i \in 1..Len(nbtdata.tags) |-> nbt2py(nbtdata.tags[i])])
    [] nbtdata.type = "TAG_Compound" ->
         nbt2py_Compound([i \in 1..Len(nbtdata.tags) |->
                            [key |-> nbtdata.tags[i].name, id |-> i,
                             val |-> nbt2py(nbtdata.tags[i])]])

(***************************************************************************)
(* Inputs.  str2nbt takes any text; the texts checked are drawn from the   *)
(* families below.  An input records the family and the parts its text was *)
(* put together from.                                                      *)
(***************************************************************************)
MaxRaw == 3

MaxElems == 2

MaxStr == 2

Input(family, parts, txt) == [family |-> family, parts |-> parts, text |-> txt]

\* every sequence over S of length lo..hi
SeqsOf(S, lo, hi) == UNION {[1..n -> S] : n \in lo..hi}

\* every text of at most MaxRaw characters over RawAlphabet
RawAlphabet == {"1", "-", "b", "a", "\"", "[", "]", "{", "}", ":", ",", " "}

RawInputs == {Input("raw", <<t>>, t) : t \in SeqsOf(RawAlphabet, 0, MaxRaw)}

\* numeric literals: sign, integer part, fraction, exponent, suffix, and
\* what follows the literal
Signs == {<<>>, <<"-">>, <<"+">>}

IntParts == {<<"1">>, <<"0">>, <<"2", "5">>}

Fractions == {<<>>, <<".">>, <<".", "0">>, <<".", "5">>, <<".", "2", "5">>}

Exponents == {<<>>, <<"e", "5">>, <<"e", "-", "5">>, <<"E", "1", "6">>, <<"e", "9", "9", "9">>, <<"e", "-", "9", "9", "9">>, <<"e", "3", "0", "8">>}

Suffixes == {<<>>, <<"b">>, <<"s">>, <<"l">>, <<"f">>, <<"d">>, <<"B">>}

Trailers == {<<>>, <<"x">>}

NumberInputs ==
  {Input("number", <<sg \o ip \o fr \o ex, sf, tr>>, sg \o ip \o fr \o ex \o sf \o tr) :
     sg \in Signs, ip \in IntParts, fr \in Fractions, ex \in Exponents,
     sf \in Suffixes, tr \in Trailers}

\* strings: a text q of at most MaxStr characters, bare and in double quotes
StrAlphabet == {"a", "B", "1", " ", "\\", "n", "-"}

StringInputs ==
  {Input("bare", <<q>>, q) : q \in SeqsOf(StrAlphabet, 1, MaxStr)}
  \cup {Input("quoted", <<q>>, <<"\"">> \o q \o <<"\"">>) : q \in SeqsOf(StrAlphabet, 0, MaxStr)}

\* arrays "[X; v1,...,vn]" of 1..MaxElems elements
ArrayLetters == {"B", "I", "L"}

ArrayValues == {<<"1">>, <<"-", "1">>, <<"-", "1", "2", "8">>, <<"2", "5", "5">>, <<"2", "5", "6">>, <<"2", "B">>, <<"3", "b">>, <<"2", "I">>, <<"3", "l">>}

ArrayInputs ==
  {Input("array", <<<<X>>>> \o vs, <<"[", X, ";", " ">> \o Join(vs, <<",">>) \o <<"]">>) :
     X \in ArrayLetters, vs \in SeqsOf(ArrayValues, 1, MaxElems)}

\* lists "[v1,...,vn]" of 0..MaxElems elements: of scalars and empty
\* containers, and of containers
Scalars == {<<"1">>, <<"2", "b">>, <<"-", "1", ".", "5">>, <<"1", "e", "9", "9", "9">>, <<"a">>, <<"\"", "a", " ", "b", "\"">>, <<"\"", "\"">>, <<"{", "}">>, <<"[", "]">>}

Containers == {<<"[", "1", "]">>, <<"[", "a", ",", "2", "]">>, <<"[", "\"", "\"", "]">>, <<"{", "a", ":", "1", "}">>, <<"{", "a", ":", "1", ",", "a", ":", "2", "}">>, <<"[", "B", ";", " ", "1", "]">>, <<"[", "B", ";", " ", "-", "1", "]">>}

ListInputs ==
  {Input("list", vs, <<"[">> \o Join(vs, <<",">>) \o <<"]">>) :
     vs \in SeqsOf(Scalars, 0, MaxElems) \cup SeqsOf(Containers \cup {<<"1">>}, 1, MaxElems)}

\* compounds "{k1:v1,...,kn:vn}" of 0..MaxElems entries; the parts are
\* k1, v1, ..., kn, vn
Keys == {<<"a">>, <<"b">>, <<"\"", "a", "\"">>}

Values == {<<"1">>, <<"2", "b">>, <<"{", "}">>, <<"[", "]">>, <<"[", "1", ",", "2", ",", "3", "]">>, <<"[", "B", ";", " ", "-", "1", "]">>}

Entries == {<<k, v>> : k \in Keys, v \in Values}

EntryText(e) == e[1] \o <<":">> \o e[2]

RECURSIVE Flatten(_)
Flatten(es) == IF es = <<>> THEN <<>> ELSE Head(es) \o Flatten(Tail(es))

CompoundInputs ==
  {Input("compound", Flatten(es),
         <<"{">> \o Join([i \in 1..Len(es) |-> EntryText(es[i])], <<",">>) \o <<"}">>) :
     es \in SeqsOf(Entries, 0, MaxElems)}

\* a complete literal followed by more text, with and without white space
Complete == {<<"1">>, <<"1", "b">>, <<"1", ".", "5">>, <<"a">>, <<"\"", "a", "\"">>, <<"{", "a", ":", "1", "}">>, <<"[", "1", "]">>, <<"[", "B", ";", " ", "1", "]">>, <<"{", "}">>}

Rests == {<<"2">>, <<"x">>, <<"}">>, <<"]">>, <<",">>, <<"\"">>, <<" ">>, <<"\n">>, <<" ", "2">>, <<" ", "x">>, <<" ", "}">>}

TrailingInputs ==
  {Input("trailing", <<t, r>>, t \o r) : t \in Complete, r \in Rests}
  \cup {Input("leading", <<t, r>>, r \o t) : t \in Complete, r \in {<<" ">>, <<"\n">>}}

Inputs ==
  RawInputs \cup NumberInputs \cup StringInputs \cup ArrayInputs \cup ListInputs
  \cup CompoundInputs \cup TrailingInputs

(***************************************************************************)
(* The conversions as steps: str2nbt on the input, then nbt2str and        *)
(* str2nbt on its output, or nbt2py.                                       *)
(***************************************************************************)
NoResult == Failed("")

Init ==
  /\ input \in Inputs
  /\ text = input.text
  /\ pc = "start"
  /\ result = NoResult
  /\ out = <<>>
  /\ back = NoResult
  /\ native = PyNone

\* tag = str2nbt(text)
Str2Nbt ==
  /\ pc = "start"
  /\ result' = str2nbt(text)
  /\ pc' = "parsed"
  /\ UNCHANGED <<input, text, out, back, native>>

\* out = nbt2str(tag)
Nbt2Str ==
  /\ pc = "parsed"
  /\ result.st = "ok"
  /\ out' = nbt2str(result.tag)
  /\ pc' = "printed"
  /\ UNCHANGED <<input, text, result, back, native>>

\* back = str2nbt(out)
Reparse ==
  /\ pc = "printed"
  /\ back' = str2nbt(out)
  /\ pc' = "reparsed"
  /\ UNCHANGED <<input, text, result, out, native>>

\* native = nbt2py(tag)
Nbt2Py ==
  /\ pc = "parsed"
  /\ result.st = "ok"
  /\ native' = nbt2py(result.tag)
  /\ pc' = "flattened"
  /\ UNCHANGED <<input, text, result, out, back>>

Next == Str2Nbt \/ Nbt2Str \/ Reparse \/ Nbt2Py

Spec == Init /\ [][Next]_vars

(***************************************************************************)
(* Properties                                                              *)
(***************************************************************************)
\* C1: printing a parsed tag tree and parsing the output again succeeds and
\* gives a tag tree equal to the first: same variants, values, children and
\* names, in the same order.
RoundTrip == pc = "reparsed" => back = Returned(result.tag)

\* the top-level tag matched at the start of s ends before a character
\* that is not white space
TrailingText(s) ==
  LET r == STR_TAG(s, 1)
  IN  r.st = "ok" /\ preParse(s, r.loc) <= Len(s)

\* C2: when the top-level tag is followed by a character that is not white
\* space, str2nbt fails with a ParseException and returns no tag.
ConsumesEntireInput ==
  pc = "parsed" /\ TrailingText(ExpandTabs(text, 0)) => result = Failed("ParseException")

ConsumesEntireInputWitness ==
  /\ pc = "parsed"
  /\ input.family = "trailing"
  /\ text = <<"{", "a", ":", "1", "}", "}">>
  /\ TrailingText(text)
  /\ result = Failed("ParseException")

IsDigits(t) == t # <<>> /\ \A i \in 1..Len(t) : t[i] \in Digit

Unsigned(t) == IF t # <<>> /\ t[1] \in {"+", "-"} THEN Tail(t) ELSE t

\* an optionally signed integer literal
IsIntegerLiteral(t) == IsDigits(Unsigned(t))

\* an optionally signed literal with a "." part
IsDecimalLiteral(t) ==
  LET u   == Unsigned(t)
      dot == FindChar(u, 1, {"."})
  IN  /\ dot <= Len(u)
      /\ IsDigits(Slice(u, 1, dot))
      /\ dot = Len(u) \/ IsDigits(Slice(u, dot + 1, Len(u) + 1))

\* the number a digit string denotes
RECURSIVE NumeralValue(_)
NumeralValue(t) ==
  IF t = <<>> THEN 0
  ELSE 10 * NumeralValue(SubSeq(t, 1, Len(t) - 1)) + DigitVal(t[Len(t)])

RECURSIVE Pow10(_)
Pow10(n) == IF n = 0 THEN 1 ELSE 10 * Pow10(n - 1)

\* the int n is the number of the integer literal t
IntegerIs(n, t) ==
  n = (IF t[1] = "-" THEN 0 - NumeralValue(Unsigned(t)) ELSE NumeralValue(Unsigned(t)))

\* the float x is the number of the integer or decimal literal t
FloatIs(x, t) ==
  LET u     == Unsigned(t)
      dot   == FindChar(u, 1, {"."})
      ipart == Slice(u, 1, dot)
      fpart == IF dot >= Len(u) THEN <<>> ELSE Slice(u, dot + 1, Len(u) + 1)
      k     == x.decpt - Len(x.digits) + Len(fpart)
  IN  /\ ~x.inf
      /\ x.neg = (t[1] = "-")
      /\ k >= 0
      /\ NumeralValue(x.digits) * Pow10(k) = NumeralValue(ipart \o fpart)

\* the literal and the suffix letter of a text that ends in one of b s l f d
SuffixOf(t) == IF t # <<>> /\ t[Len(t)] \in {"b", "s", "l", "f", "d"} THEN t[Len(t)] ELSE ""

LiteralOf(t) == IF SuffixOf(t) = "" THEN t ELSE SubSeq(t, 1, Len(t) - 1)

\* the variant the claim names for a literal and suffix, "" where it names none
VariantFor(lit, sf) ==
  CASE IsIntegerLiteral(lit) /\ sf = "b" -> "TAG_Byte"
    [] IsIntegerLiteral(lit) /\ sf = "s" -> "TAG_Short"
    [] IsIntegerLiteral(lit) /\ sf = "l" -> "TAG_Long"
    [] IsIntegerLiteral(lit) /\ sf = "" -> "TAG_Int"
    [] (IsIntegerLiteral(lit) \/ IsDecimalLiteral(lit)) /\ sf = "f" -> "TAG_Float"
    [] (IsIntegerLiteral(lit) \/ IsDecimalLiteral(lit)) /\ sf = "d" -> "TAG_Double"
    [] IsDecimalLiteral(lit) /\ sf = "" -> "TAG_Double"
    [] OTHER -> ""

\* C3: a numeric literal parses to the variant its suffix and form select
\* (b Byte, s Short, l Long, a bare integer Int, f Float, d or a bare
\* decimal Double), with the literal's number as value.
NumericVariantSelection ==
  LET lit == LiteralOf(text)
      v   == VariantFor(lit, SuffixOf(text))
  IN  pc = "parsed" /\ v # "" =>
        /\ result.st = "ok"
        /\ result.tag.type = v
        /\ IF v \in {"TAG_Float", "TAG_Double"}
           THEN FloatIs(result.tag.flt, lit)
           ELSE IntegerIs(result.tag.num, lit)

NumericVariantSelectionWitness ==
  /\ pc = "parsed"
  /\ text = <<"1", ".", "0", "f">>
  /\ result.st = "ok"
  /\ result.tag.type = "TAG_Float"

\* C4: str2nbt returns a tag or fails with a ParseException, never with
\* another exception.
OnlyParseError == pc = "parsed" => result.st \in {"ok", "ParseException"}

\* the string a key denotes: the word, or the text between the quotes
StringValueOf(k) == IF k[1] = "\"" THEN SubSeq(k, 2, Len(k) - 1) ELSE k

\* the parts k1, v1, ..., kn, vn of a compound input
NumEntries == Len(input.parts) \div 2

KeyPart(i) == input.parts[2 * i - 1]

ValuePart(i) == input.parts[2 * i]

\* C5: a compound literal of n >= 1 entries with valid values parses to a
\* Compound of exactly n children in textual order, the i-th being the tag
\* of the i-th value named by the i-th key, repeated keys included.
CompoundConstruction ==
  /\ pc = "parsed"
  /\ input.family = "compound"
  /\ NumEntries >= 1
  /\ \A i \in 1..NumEntries : str2nbt(ValuePart(i)).st = "ok"
  => result = Returned(Tag("TAG_Compound", 0, NoFloat, <<>>, <<>>,
                           [i \in 1..NumEntries |->
                              [str2nbt(ValuePart(i)).tag EXCEPT !.name = StringValueOf(KeyPart(i))]],
                           ""))

CompoundConstructionWitness ==
  /\ pc = "parsed"
  /\ text = <<"{", "a", ":", "1", ",", "\"", "a", "\"", ":", "2", "b", "}">>
  /\ result.st = "ok"
  /\ Len(result.tag.tags) = 2
  /\ result.tag.tags[1].name = result.tag.tags[2].name

IsEmpty(tag, type) == tag.type = type /\ tag.tags = <<>>

\* C6: "[]" parses to a List without children and "{}" to a Compound
\* without entries, also as a list element or a compound entry's value.
EmptyContainersAccepted ==
  pc = "parsed" =>
    /\ text = <<"[", "]">> => result.st = "ok" /\ IsEmpty(result.tag, "TAG_List")
    /\ text = <<"{", "}">> => result.st = "ok" /\ IsEmpty(result.tag, "TAG_Compound")
    /\ text = <<"[", "[", "]", "]">> =>
         result.st = "ok" /\ Len(result.tag.tags) = 1 /\ IsEmpty(result.tag.tags[1], "TAG_List")
    /\ text = <<"[", "{", "}", "]">> =>
         result.st = "ok" /\ Len(result.tag.tags) = 1 /\ IsEmpty(result.tag.tags[1], "TAG_Compound")
    /\ text = <<"{", "a", ":", "[", "]", "}">> =>
         result.st = "ok" /\ Len(result.tag.tags) = 1 /\ IsEmpty(result.tag.tags[1], "TAG_List")
    /\ text = <<"{", "a", ":", "{", "}", "}">> =>
         result.st = "ok" /\ Len(result.tag.tags) = 1 /\ IsEmpty(result.tag.tags[1], "TAG_Compound")

\* the element texts of an array input, after its letter
ArrayElements == Tail(input.parts)

\* an integer literal, optionally followed by the array's letter X
ElementLiteral(e, X) == IF e[Len(e)] = X THEN SubSeq(e, 1, Len(e) - 1) ELSE e

\* n fits the signed element width of array X: 8, 32 or 64 bits
FitsWidth(n, X) ==
  CASE X = "B" -> n \in -128..127
    [] X = "I" -> n \in (-2147483647 - 1)..2147483647
    [] OTHER -> TRUE

ArrayTypeOf(X) ==
  CASE X = "B" -> "TAG_Byte_Array" [] X = "I" -> "TAG_Int_Array" [] OTHER -> "TAG_Long_Array"

\* C7: "[X; v1,...,vn]" of integer literals that fit the signed element
\* width of X, each optionally followed by X, parses to the array tag of X
\* holding exactly v1..vn in order.
ArrayParsing ==
  LET X == input.parts[1][1]
  IN  /\ pc = "parsed"
      /\ input.family = "array"
      /\ \A i \in 1..Len(ArrayElements) :
           /\ IsIntegerLiteral(ElementLiteral(ArrayElements[i], X))
           /\ \E n \in -128..256 :
                IntegerIs(n, ElementLiteral(ArrayElements[i], X)) /\ FitsWidth(n, X)
      => /\ result.st = "ok"
         /\ result.tag.type = ArrayTypeOf(X)
         /\ Len(result.tag.arr) = Len(ArrayElements)
         /\ \A i \in 1..Len(ArrayElements) :
              IntegerIs(result.tag.arr[i], ElementLiteral(ArrayElements[i], X))

\* C8: a list literal of n >= 1 valid children parses to a List of exactly
\* the children's tags in order, whose declared element type is the variant
\* of the first child.
ListConstruction ==
  /\ pc = "parsed"
  /\ input.family = "list"
  /\ Len(input.parts) >= 1
  /\ \A i \in 1..Len(input.parts) : str2nbt(input.parts[i]).st = "ok"
  => result = Returned(Tag("TAG_List", 0, NoFloat, <<>>, <<>>,
                           [i \in 1..Len(input.parts) |-> str2nbt(input.parts[i]).tag],
                           str2nbt(input.parts[1]).tag.type))

\* the item of a dict with the given key, if any
HasKey(items, key) == \E n \in 1..Len(items) : items[n].key = key

ItemOf(items, key) == items[CHOOSE n \in 1..Len(items) : items[n].key = key]

\* v is the flattening of tag.  For a Compound: a dict whose keys are the
\* entries' names, mapping the name of each entry (everyEntry), or of each
\* entry that is the last of its name, to the flattening of its value.
RECURSIVE Flattened(_, _, _)
Flattened(tag, v, everyEntry) ==
  CASE tag.type \in {"TAG_Byte", "TAG_Short", "TAG_Int", "TAG_Long"} ->
         v.kind = "int" /\ v.num = tag.num
    [] tag.type \in {"TAG_Float", "TAG_Double"} -> v.kind = "float" /\ v.flt = tag.flt
    [] tag.type = "TAG_String" -> v.kind = "str" /\ v.str = tag.str
    [] tag.type \in {"TAG_Byte_Array", "TAG_Int_Array", "TAG_Long_Array"} ->
         /\ v.kind \in {"bytearray", "list"}
         /\ Len(v.seq) = Len(tag.arr)
         /\ \A i \in 1..Len(tag.arr) : v.seq[i].kind = "int" /\ v.seq[i].num = tag.arr[i]
    [] tag.type = "TAG_List" ->
         /\ v.kind = "list"
         /\ Len(v.seq) = Len(tag.tags)
         /\ \A i \in 1..Len(tag.tags) : Flattened(tag.tags[i], v.seq[i], everyEntry)
    [] tag.type = "TAG_Compound" ->
         /\ v.kind = "dict"
         /\ \A n \in 1..Len(v.items) :
              /\ \E i \in 1..Len(tag.tags) : tag.tags[i].name = v.items[n].key
              /\ \A m \in 1..Len(v.items) : v.items[m].key = v.items[n].key => m = n
         /\ \A i \in 1..Len(tag.tags) :
              \/ ~everyEntry /\ \E j \in (i + 1)..Len(tag.tags) : tag.tags[j].name = tag.tags[i].name
              \/ /\ HasKey(v.items, tag.tags[i].name)
                 /\ Flattened(tag.tags[i], ItemOf(v.items, tag.tags[i].name).val, everyEntry)
    [] OTHER -> FALSE

\* C9 as stated: nbt2py gives the raw value of a scalar, the numbers of an
\* array, the flattened children of a List, and for a Compound a mapping
\* from every entry's name to the flattening of that entry's value.
Flattening == pc = "flattened" => Flattened(result.tag, native, TRUE)

\* C9: as above, but a Compound's mapping has the entries' names as keys
\* and maps each name to the flattening of the last entry of that name.
FlatteningLastEntry == pc = "flattened" => Flattened(result.tag, native, FALSE)

FlatteningLastEntryWitness ==
  /\ pc = "flattened"
  /\ text = <<"{", "a", ":", "1", ",", "a", ":", "[", "1", ",", "2", ",", "3", "]", "}">>
  /\ Len(result.tag.tags) = 2
  /\ Len(native.items) = 1
  /\ native.items[1].val.kind = "list"

\* C10: a word of alphanumeric characters that does not begin with a digit
\* parses to the String of that word, and any text without double quote or
\* line break, in double quotes, to the String of that text.
StringParsing ==
  LET q == input.parts[1]
  IN  /\ pc = "parsed" /\ input.family = "bare"
         /\ (\A i \in 1..Len(q) : q[i] \in alphanums) /\ q[1] \notin Digit
         => result = Returned(TAG_String(q))
      /\ pc = "parsed" /\ input.family = "quoted"
         /\ (\A i \in 1..Len(q) : q[i] \notin {"\"", "\n", "\r"})
         => result = Returned(TAG_String(q))

====
